---------------------------- MODULE Spec2Model ----------------------------
(***************************************************************************)
(* Model of the postgres_to_es ETL pipeline (src/postgres_to_es/main.py):  *)
(* the backoff retry wrapper, PgExtractor, DataTransformer, EsUploader and *)
(* the EtlManager loop, together with the SIGTERM handler installed by the *)
(* script.  Time is counted in ticks; a second holds TicksPerSec ticks.    *)
(***************************************************************************)
EXTENDS Integers, Sequences, FiniteSets, TLC

(* ------------------------------ bounds -------------------------------- *)
NumRows == 2        \* rows of content.movies
MaxTime == 2        \* greatest updated_at, in ticks
TicksPerSec == 2    \* resolution of a timestamp below one second
MaxChunk == 2       \* greatest configured chunk_size
MaxSignals == 1     \* signals delivered to the process in one run
MaxTries == 4       \* greatest tries given to a generic wrapped operation
MaxLinks == 1       \* greatest number of genres, and of people, linked to one movie

(* ------------------------- program constants -------------------------- *)
DefaultTries == 16  \* backoff(..., tries=16, ...)
DefaultDelay == 1   \* backoff(..., delay=0.1, ...), in tenths of a second
DefaultBackoff == 2 \* backoff(..., backoff=2, ...)

Ids == 1..NumRows
Times == 1..MaxTime

(* A movie_rating column value as psycopg2 delivers it (DecimalField,      *)
(* null=True): None or a Decimal, here in tenths.                          *)
PyNone == [kind |-> "None", v |-> 0]
Decimal(n) == [kind |-> "Decimal", v |-> n]
PyFloat(n) == [kind |-> "float", v |-> n]
Ratings == {PyNone, Decimal(0), Decimal(75)}

(* ------------------------ pure helper functions ----------------------- *)
RECURSIVE Pow(_, _)
Pow(b, k) == IF k = 0 THEN 1 ELSE b * Pow(b, k - 1)

Last(s) == s[Len(s)]

MinSecond(a, b) == b
Min(a, b) == IF a < b THEN a ELSE b

(* All orderings of a finite set, as sequences.                            *)
Perms(S) ==
    {s \in [1..Cardinality(S) -> S] : \A i, j \in 1..Cardinality(S) : s[i] = s[j] => i = j}

IsSortedByTs(s) == \A i, j \in 1..Len(s) : i < j => s[i].ts <= s[j].ts

(* str(datetime): 'YYYY-MM-DD HH:MM:SS' followed by '.ffffff' only when    *)
(* the sub-second part is not zero.  A string is modelled by its fields:   *)
(* <<seconds>> or <<seconds, fraction>>; the empty string / None is <<>>.  *)
StrOfTs(t) ==
    IF t % TicksPerSec = 0 THEN <<t \div TicksPerSec>>
    ELSE <<t \div TicksPerSec, t % TicksPerSec>>

(* The epoch sentinel '1970-01-01' written on first run.                   *)
EpochSentinel == <<0>>

(* Postgres' reading of the timestamp literal interpolated in a query.     *)
PgParse(s) ==
    IF Len(s) = 0 THEN 0
    ELSE s[1] * TicksPerSec + (IF Len(s) > 1 THEN s[2] ELSE 0)

(* Python truth of a stored value: None and '' are false.                  *)
Truthy(s) == s # <<>>


(* isinstance(e, cls) over the exception classes that occur.               *)
IsInstanceAny(e, cls) == TRUE
IsInstance(e, cls) ==
    \/ cls = "BaseException"
    \/ e = cls
    \/ cls = "Exception" /\ e \in {"ConnectionError", "TypeError"}

(* ------------------------------- state -------------------------------- *)
VARIABLES
    source,           \* content.movies: id -> [ts, rating]
    links,            \* content.movie_genres / movie_people: id -> numbers of linked rows
    sink,             \* index "movies": id -> updated_at of the indexed version, 0 = no document
    state,            \* persisted state key 'movies_updated_at'; <<>> = absent
    connection,       \* PgExtractor.connection: "none", "open" or "closed"
    chunk_size,       \* config.movies_pg.chunk_size
    wrapped,          \* the operation decorated by backoff: "_execute" or "op"
    ExceptionToCheck, \* backoff's first argument
    tries, delay, backoff,
    pc,               \* position of the single thread of control
    mtries, mdelay,   \* locals of f_retry
    exc,              \* the exception being handled or propagated, "none" if none
    updated_time,     \* local of check_updated_movies / extract_updated_movies
    cursor,           \* rows of the executed query not yet fetched
    title_list,       \* the chunk last yielded by extract_updated_movies
    payload,          \* the payload last yielded by transform_movies
    calls,            \* history: invocations of the wrapped operation in this f_retry call
    sleeps,           \* history: delays slept by this f_retry call
    yielded,          \* history: rows yielded so far by the current stream
    abandoned,        \* history: rows still unfetched when the last abandoned stream was dropped
    startW,           \* history: the persisted value when the run started
    sigCount,         \* history: signals delivered so far
    result            \* history: what the call made by the step just taken returned

vars == <<source, links, sink, state, connection, chunk_size, wrapped, ExceptionToCheck,
          tries, delay, backoff, pc, mtries, mdelay, exc, updated_time, cursor,
          title_list, payload, calls, sleeps, yielded, abandoned, startW, sigCount,
          result>>

config == <<links, chunk_size, wrapped, ExceptionToCheck, tries, delay, backoff, startW>>
genLocals == <<updated_time, cursor, title_list, payload, yielded>>
retryLocals == <<mtries, mdelay, calls, sleeps>>

Range(s) == {s[i] : i \in 1..Len(s)}

Row(i) == [id |-> i, ts |-> source[i].ts, rating |-> source[i].rating]

(* ------------------------ Watermark Store ----------------------------- *)
(* State.get_state(key): the stored value, or None (<<>>) when absent.     *)
get_state(st) == st

(* State.set_state(key, value): the stored mapping with key set to value.  *)
set_state(st, value) == value

(* The watermark as the instant Postgres compares updated_at with.         *)
WmValue(st) == PgParse(st)

(* ------------------------------ Init ---------------------------------- *)
InitCommon ==
    /\ mtries = 0 /\ mdelay = 0 /\ exc = "none"
    /\ updated_time = <<>> /\ cursor = <<>> /\ title_list = <<>> /\ payload = <<>>
    /\ calls = 0 /\ sleeps = <<>> /\ yielded = <<>> /\ abandoned = {}
    /\ sigCount = 0
    /\ result = "none"
    /\ pc = "start"

(* EtlManager.__init__ followed by the entry of start().                   *)
Init ==
    /\ source \in [Ids -> [ts : Times, rating : Ratings]]
    /\ links = [i \in Ids |-> [genres |-> 1, people |-> 0]]
    /\ sink = [i \in Ids |-> 0]
    /\ state \in {<<>>} \cup {StrOfTs(t) : t \in 0..MaxTime}
    /\ startW = state
    /\ connection \in {"none", "open"}
    /\ chunk_size \in 1..MaxChunk
    /\ wrapped = "_execute"
    /\ ExceptionToCheck = "Exception"
    /\ tries = DefaultTries /\ delay = DefaultDelay /\ backoff = DefaultBackoff
    /\ InitCommon

(* The two queries of a connected PgExtractor, for any content of the      *)
(* source tables and any persisted watermark.                              *)
InitQuery ==
    /\ source \in [Ids -> [ts : Times, rating : {PyNone}]]
    /\ links \in [Ids -> [genres : 0..MaxLinks, people : 0..MaxLinks]]
    /\ sink = [i \in Ids |-> 0]
    /\ state \in {<<>>} \cup {StrOfTs(t) : t \in 0..MaxTime}
    /\ startW = state
    /\ connection = "open"
    /\ chunk_size = 1
    /\ wrapped = "query"
    /\ ExceptionToCheck = "Exception"
    /\ tries = DefaultTries /\ delay = DefaultDelay /\ backoff = DefaultBackoff
    /\ InitCommon

(* A generic operation decorated with backoff(cls, tries, delay, backoff). *)
InitRetry ==
    /\ source = [i \in Ids |-> [ts |-> 1, rating |-> PyNone]]
    /\ links = [i \in Ids |-> [genres |-> 1, people |-> 0]]
    /\ sink = [i \in Ids |-> 0]
    /\ state = <<>> /\ startW = <<>>
    /\ connection = "none"
    /\ chunk_size = 1
    /\ wrapped = "op"
    /\ ExceptionToCheck \in {"Exception", "ConnectionError"}
    /\ tries \in 1..MaxTries
    /\ delay \in {1, 3}
    /\ backoff \in {2, 3}
    /\ InitCommon

(* ------------------------- backoff / f_retry -------------------------- *)
(* Where control goes when exception e leaves the wrapped operation: the   *)
(* except clause of the while loop when the call was made inside it, else  *)
(* out of f_retry (and, for _execute, out of start() and main()).          *)
AfterRaiseOneMore(e) ==
    IF mtries > 0 /\ IsInstance(e, ExceptionToCheck) THEN "backoff_sleep"
    ELSE IF wrapped = "_execute" THEN "crashed" ELSE "raised"
AfterRaise(e) ==
    IF mtries > 1 /\ IsInstance(e, ExceptionToCheck) THEN "backoff_sleep"
    ELSE IF wrapped = "_execute" THEN "crashed" ELSE "raised"

(* Where control goes when the wrapped operation returns.                  *)
AfterReturnLoops == IF wrapped = "_execute" THEN "start" ELSE "attempt"
AfterReturn == IF wrapped = "_execute" THEN "start" ELSE "returned"

(* start(): while True: self._execute()  -- entry of f_retry.              *)
StartKeepsBudget ==
    /\ pc \in {"start", "returned", "raised"}
    /\ mtries' = IF mtries = 0 THEN tries ELSE mtries
    /\ mdelay' = IF mdelay = 0 THEN delay ELSE mdelay
    /\ calls' = 0
    /\ sleeps' = <<>>
    /\ exc' = "none"
    /\ result' = "none"
    /\ pc' = "attempt"
    /\ UNCHANGED <<source, sink, state, connection, config, genLocals, abandoned, sigCount>>
Start ==
    /\ pc \in {"start", "returned", "raised"}
    /\ mtries' = tries
    /\ mdelay' = delay
    /\ calls' = 0
    /\ sleeps' = <<>>
    /\ exc' = "none"
    /\ result' = "none"
    /\ pc' = "attempt"
    /\ UNCHANGED <<source, sink, state, connection, config, genLocals, abandoned, sigCount>>

(* except ExceptionToCheck: time.sleep(mdelay); mtries -= 1; mdelay *= backoff *)
BackoffSleep ==
    /\ pc = "backoff_sleep"
    /\ sleeps' = Append(sleeps, mdelay)
    /\ mtries' = mtries - 1
    /\ mdelay' = mdelay * backoff
    /\ exc' = "none"
    /\ result' = "none"
    /\ pc' = "attempt"
    /\ UNCHANGED <<source, sink, state, connection, config, genLocals, abandoned, sigCount, calls>>

(* One invocation of a generic wrapped operation: it returns, or raises.   *)
OpCall ==
    /\ pc = "attempt"
    /\ wrapped = "op"
    /\ calls' = calls + 1
    /\ \E outcome \in {"ok", "ConnectionError", "TypeError"} :
         IF outcome = "ok"
         THEN pc' = AfterReturn /\ exc' = "none" /\ result' = "value"
         ELSE pc' = AfterRaise(outcome) /\ exc' = outcome /\ result' = "none"
    /\ UNCHANGED <<source, sink, state, connection, config, genLocals, abandoned, sigCount,
                   mtries, mdelay, sleeps>>

(* ----------------------------- PgExtractor ---------------------------- *)
(* is_connected(): a connection object exists and its closed flag is 0.    *)
is_connected == connection = "open"

(* The rows the WHERE clause of both queries selects:                      *)
(*   WHERE updated_at > '{updated_time}'                                   *)
SelectedIncludingEqual(ut) == {i \in Ids : source[i].ts >= PgParse(ut)}
SelectedOlder(ut) == {i \in Ids : source[i].ts < PgParse(ut)}
Selected(ut) == {i \in Ids : source[i].ts > PgParse(ut)}

(* LEFT JOIN: the matching rows of the joined table, or one row of NULLs   *)
(* (0) when there is none.                                                 *)
InnerJoin(matching) == matching
LeftJoin(matching) == IF matching = {} THEN {0} ELSE matching

(* FROM content.movies AS m LEFT JOIN ... movie_genres ... LEFT JOIN ...   *)
(* movie_people ...: the joined rows of movie i.                           *)
JoinedRows(i) ==
    {<<i, g, p>> : g \in LeftJoin(1..links[i].genres), p \in LeftJoin(1..links[i].people)}

(* WHERE m.updated_at > '{updated_time}' GROUP BY m.movie_id, ...: the     *)
(* movies with a group of joined rows.                                     *)
Extracted(ut) ==
    {r[1] : r \in {q \in UNION {JoinedRows(i) : i \in Ids} : q[1] \in Selected(ut)}}

(* The result of the extraction query: the selected rows in an order the   *)
(* server chooses (the statement has no ORDER BY).                         *)
QueryResults(ut) == Perms({Row(i) : i \in Extracted(ut)})

(* updated_time = get_state(...); if not updated_time: set_state(sentinel) *)
(* -- the value the queries are issued with, and the state it leaves.      *)
StateAfterRead == IF Truthy(get_state(state)) THEN state ELSE set_state(state, EpochSentinel)

(* The locals of a finished or dropped generator.                          *)
GenClosed ==
    /\ updated_time' = <<>> /\ cursor' = <<>> /\ title_list' = <<>>
    /\ payload' = <<>> /\ yielded' = <<>>

(* ------------------------------ EsUploader ---------------------------- *)
(* is_alive(): True on status 200, False on another status, and the        *)
(* except clause falls off the end of the function (None).                 *)
is_alive(probe) ==
    IF probe = "200" THEN "True" ELSE IF probe = "exception" THEN "None" ELSE "False"

PyTruthNotNone(v) == v # "None"
PyTruth(v) == v = "True"

(* ---------------------------- DataTransformer ------------------------- *)
(* if movie_dict['imdb_rating']: ... = float(movie_dict['imdb_rating'])    *)
RatingTruthy(r) == r.kind # "None" /\ r.v # 0
Coerce(r) == IF RatingTruthy(r) THEN PyFloat(r.v) ELSE r

ActionLineNoId(row) == [kind |-> "action", index |-> "movies", id |-> 0, rating |-> PyNone]
ActionLine(row) == [kind |-> "action", index |-> "movies", id |-> row.id, rating |-> PyNone]
DocLine(row) == [kind |-> "doc", index |-> "", id |-> 0, rating |-> Coerce(row.rating)]

(* The characters of a payload that are not the text of a value.           *)
Tok(c) == [kind |-> c, index |-> "", id |-> 0, rating |-> PyNone]
NewLine == Tok("nl")
LBrace == Tok("{")
RBrace == Tok("}")

RECURSIVE ResultLines(_)
ResultLines(chunk) ==
    IF chunk = <<>> THEN <<>>
    ELSE <<ActionLine(Head(chunk)), DocLine(Head(chunk))>> \o ResultLines(Tail(chunk))

(* json.dumps raises TypeError on a Decimal.                               *)
JsonSerializable(line) == line.rating.kind # "Decimal"

(* json.dumps(line): the text of one JSON object, with no newline in it.   *)
JsonDumps(line) == <<LBrace, line, RBrace>>

RECURSIVE Join(_, _)
Join(sep, texts) ==
    IF texts = <<>> THEN <<>>
    ELSE IF Len(texts) = 1 THEN Head(texts)
    ELSE Head(texts) \o sep \o Join(sep, Tail(texts))

(* '\n'.join([json.dumps(line) for line in result]) + '\n'                 *)
PayloadNoTrailingNewline(chunk) ==
    Join(<<NewLine>>, [k \in 1..(2 * Len(chunk)) |-> JsonDumps(ResultLines(chunk)[k])])
Payload(chunk) ==
    Join(<<NewLine>>, [k \in 1..(2 * Len(chunk)) |-> JsonDumps(ResultLines(chunk)[k])])
        \o <<NewLine>>

(* ------------------------- the sink's _bulk endpoint ------------------ *)
(* The body is read line by line: the texts between newlines.              *)
RECURSIVE Split(_)
Split(text) ==
    IF \A k \in 1..Len(text) : text[k] # NewLine THEN <<text>>
    ELSE LET k == CHOOSE j \in 1..Len(text) :
                     text[j] = NewLine /\ \A h \in 1..(j - 1) : text[h] # NewLine
         IN <<SubSeq(text, 1, k - 1)>> \o Split(SubSeq(text, k + 1, Len(text)))

JsonLoads(text) == text[2]

(* A bulk body must end with a newline, or the request is refused.         *)
Terminated(pl) == pl # <<>> /\ Last(pl) = NewLine

(* The lines of a terminated body, parsed.                                 *)
BulkLines(pl) == [k \in 1..(Len(Split(pl)) - 1) |-> JsonLoads(Split(pl)[k])]

(* The identifiers a bulk payload's index actions name.                    *)
PayloadIds(pl) ==
    {BulkLines(pl)[k].id : k \in {j \in 1..Len(BulkLines(pl)) : BulkLines(pl)[j].kind = "action"}}

(* An index action with an _id creates or replaces the document of that    *)
(* _id; one without an _id stores the document under a fresh _id.  sk.docs *)
(* keeps for each _id the updated_at of the row its document was built     *)
(* from, sk.auto counts the documents stored under generated _ids.         *)
RECURSIVE BulkApply(_, _, _)
BulkApply(sk, lines, chunk) ==
    IF Len(lines) < 2 \/ chunk = <<>> THEN sk
    ELSE LET action == lines[1]
             after == IF action.id \in Ids
                      THEN [sk EXCEPT !.docs[action.id] = Head(chunk).ts]
                      ELSE [sk EXCEPT !.auto = @ + 1]
         IN BulkApply(after, Tail(Tail(lines)), Tail(chunk))

(* The sink after a bulk request was applied; the version kept for each    *)
(* document is the updated_at of the row it was built from.                *)
Indexed(pl, chunk) ==
    IF Terminated(pl)
    THEN BulkApply([docs |-> sink, auto |-> 0], BulkLines(pl), chunk).docs
    ELSE sink

(* ------------------------------ EtlManager ---------------------------- *)
(* _execute, lines 257-259: not connected -> connect(); raise.             *)
ExecuteBegin ==
    /\ pc = "attempt"
    /\ wrapped = "_execute"
    /\ calls' = calls + 1
    /\ result' = "none"
    /\ IF ~is_connected
       THEN /\ \E ok \in BOOLEAN : connection' = IF ok THEN "open" ELSE "none"
            /\ pc' = AfterRaise("ConnectionError")
            /\ exc' = "ConnectionError"
       ELSE /\ pc' = "is_alive"
            /\ UNCHANGED <<connection, exc>>
    /\ UNCHANGED <<source, sink, state, config, genLocals, abandoned, sigCount,
                   mtries, mdelay, sleeps>>

(* _execute, lines 261-262.                                                *)
IsAlive ==
    /\ pc = "is_alive"
    /\ \E probe \in {"200", "503", "exception"} :
         /\ result' = is_alive(probe)
         /\ IF PyTruth(is_alive(probe))
            THEN pc' = "check" /\ exc' = exc
            ELSE pc' = AfterRaise("ConnectionError") /\ exc' = "ConnectionError"
    /\ UNCHANGED <<source, sink, state, connection, config, genLocals, abandoned, sigCount,
                   retryLocals>>

(* check_updated_movies, lines 99-111, for a connected extractor: True or   *)
(* False as fetchone() finds a row or not; the except clause falls off the *)
(* end of the function (None).                                             *)
check_updated_moviesCursorTruthy(outcome, ut) ==
    IF outcome # "ok" THEN "None" ELSE "True"
check_updated_movies(outcome, ut) ==
    IF outcome # "ok" THEN "None"
    ELSE IF Selected(ut) # {} THEN "True" ELSE "False"

(* _execute, line 264: check_updated_movies().                             *)
Check ==
    /\ pc = "check"
    /\ IF is_connected
       THEN /\ state' = StateAfterRead
            /\ \E outcome \in {"ok", "error"} :
                 /\ result' = check_updated_movies(outcome, StateAfterRead)
                 /\ pc' = IF PyTruth(check_updated_movies(outcome, StateAfterRead))
                          THEN "gen_start" ELSE "pace_sleep"
                 /\ connection' \in IF outcome = "ok" THEN {connection}
                                    ELSE {connection, "closed"}
       ELSE /\ \E ok \in BOOLEAN : connection' = IF ok THEN "open" ELSE "none"
            /\ result' = "None"
            /\ pc' = "pace_sleep"
            /\ state' = state
    /\ UNCHANGED <<source, sink, config, genLocals, abandoned, sigCount, retryLocals, exc>>

(* One call of check_updated_movies() on a connected extractor whose query *)
(* is answered.                                                            *)
CallCheck ==
    /\ wrapped = "query"
    /\ pc = "start"
    /\ is_connected
    /\ state' = StateAfterRead
    /\ result' = check_updated_movies("ok", StateAfterRead)
    /\ pc' = "check"
    /\ UNCHANGED <<source, sink, connection, config, genLocals, abandoned, sigCount,
                   retryLocals, exc>>

(* One call of extract_updated_movies() up to the executed query, from the *)
(* watermark the check was made with.                                      *)
CallExtract ==
    /\ wrapped = "query"
    /\ pc = "check"
    /\ is_connected
    /\ state' = StateAfterRead
    /\ updated_time' = StateAfterRead
    /\ cursor' \in QueryResults(StateAfterRead)
    /\ pc' = "gen_fetch"
    /\ UNCHANGED <<source, sink, connection, config, title_list, payload, yielded,
                   abandoned, sigCount, retryLocals, exc, result>>

(* upload_movies -> transform_movies -> the first next() of                *)
(* extract_updated_movies: lines 118-155.                                  *)
GenStart ==
    /\ pc = "gen_start"
    /\ result' = "none"
    /\ IF is_connected
       THEN /\ state' = StateAfterRead
            /\ \E outcome \in {"ok", "error"} :
                 IF outcome = "ok"
                 THEN /\ updated_time' = StateAfterRead
                      /\ cursor' \in QueryResults(StateAfterRead)
                      /\ title_list' = <<>> /\ payload' = <<>> /\ yielded' = <<>>
                      /\ pc' = "gen_fetch"
                      /\ connection' = connection
                 ELSE /\ GenClosed
                      /\ pc' = "pace_sleep"
                      /\ connection' \in {connection, "closed"}
       ELSE /\ \E ok \in BOOLEAN : connection' = IF ok THEN "open" ELSE "none"
            /\ GenClosed
            /\ pc' = "pace_sleep"
            /\ state' = state
    /\ UNCHANGED <<source, sink, config, abandoned, sigCount, retryLocals, exc>>

(* lines 156-159: fetchmany, set_state, yield; or the end of the stream.   *)
GenFetch ==
    /\ pc = "gen_fetch"
    /\ result' = "none"
    /\ IF cursor = <<>>
       THEN /\ GenClosed
            /\ abandoned' = {}
            /\ pc' = "pace_sleep"
            /\ state' = state
       ELSE LET n == Min(chunk_size, Len(cursor))
                fetched == SubSeq(cursor, 1, n)
            IN /\ title_list' = fetched
               /\ cursor' = SubSeq(cursor, n + 1, Len(cursor))
               /\ state' = set_state(state, StrOfTs(Last(fetched).ts))
               /\ yielded' = yielded \o fetched
               /\ pc' = "transform"
               /\ UNCHANGED <<updated_time, payload, abandoned>>
    /\ UNCHANGED <<source, sink, connection, config, sigCount, retryLocals, exc>>

(* transform_movies, lines 177-199, for the chunk just yielded.  A line    *)
(* json.dumps cannot serialize raises TypeError through upload_movies      *)
(* (its for statement is outside the try) and out of _execute.             *)
Transform ==
    /\ pc = "transform"
    /\ result' = "none"
    /\ IF \A k \in 1..Len(ResultLines(title_list)) : JsonSerializable(ResultLines(title_list)[k])
       THEN /\ payload' = Payload(title_list)
            /\ pc' = "post"
            /\ UNCHANGED <<updated_time, cursor, title_list, yielded, abandoned, exc>>
       ELSE /\ GenClosed
            /\ abandoned' = Range(cursor)
            /\ pc' = AfterRaise("TypeError")
            /\ exc' = "TypeError"
    /\ UNCHANGED <<source, sink, state, connection, config, sigCount, retryLocals>>

(* upload_movies, lines 230-236: the bulk request is applied, answered     *)
(* with an error status, or fails in transport; nothing is re-raised.      *)
PostAdvancesWatermark ==
    /\ pc = "post"
    /\ \E outcome \in {"ok", "rejected", "exception"} :
         /\ result' = outcome
         /\ sink' = IF outcome = "ok" THEN Indexed(payload, title_list) ELSE sink
         /\ state' = IF outcome = "ok" THEN set_state(state, EpochSentinel) ELSE state
    /\ title_list' = <<>>
    /\ payload' = <<>>
    /\ pc' = "gen_fetch"
    /\ UNCHANGED <<source, connection, config, updated_time, cursor, yielded,
                   abandoned, sigCount, retryLocals, exc>>
Post ==
    /\ pc = "post"
    /\ \E outcome \in {"ok", "rejected", "exception"} :
         /\ result' = outcome
         /\ sink' = IF outcome = "ok" THEN Indexed(payload, title_list) ELSE sink
    /\ title_list' = <<>>
    /\ payload' = <<>>
    /\ pc' = "gen_fetch"
    /\ UNCHANGED <<source, state, connection, config, updated_time, cursor, yielded,
                   abandoned, sigCount, retryLocals, exc>>

(* _execute, line 267: time.sleep(updates_check_period); return.           *)
PaceSleep ==
    /\ pc = "pace_sleep"
    /\ result' = "none"
    /\ pc' = AfterReturn
    /\ UNCHANGED <<source, sink, state, connection, config, genLocals, abandoned, sigCount,
                   retryLocals, exc>>

(* ------------------------------- signals ------------------------------ *)
(* What the interpreter raises in the main thread when the signal is       *)
(* delivered.  SIGTERM: the installed handler terminate_process() takes no *)
(* parameter and is called with (signum, frame), a TypeError.  SIGINT: no  *)
(* handler is installed, the default one raises KeyboardInterrupt.         *)
RaisedBySignal(sig) == IF sig = "SIGTERM" THEN "TypeError" ELSE "KeyboardInterrupt"

(* The `except Exception` clauses of is_alive, check_updated_movies,       *)
(* extract_updated_movies and upload_movies.                               *)
CaughtLocally(e) == IsInstance(e, "Exception")

(* Where control goes when e is raised at the current position.            *)
SignalTarget(e) ==
    CASE pc = "is_alive" -> IF CaughtLocally(e) THEN AfterRaise("ConnectionError") ELSE "crashed"
      [] pc \in {"check", "gen_start", "gen_fetch"} ->
                            IF CaughtLocally(e) THEN "pace_sleep" ELSE "crashed"
      [] pc = "post" -> IF CaughtLocally(e) THEN "gen_fetch" ELSE "crashed"
      [] pc \in {"transform", "pace_sleep"} -> AfterRaise(e)
      [] OTHER -> "crashed"

(* A signal is delivered while the process is inside one of its steps.     *)
Signal(sig) ==
    LET e == RaisedBySignal(sig) IN
    /\ wrapped = "_execute"
    /\ sigCount < MaxSignals
    /\ pc \in {"is_alive", "check", "gen_start", "gen_fetch", "transform", "post",
               "pace_sleep", "backoff_sleep"}
    /\ sigCount' = sigCount + 1
    /\ result' = IF pc = "is_alive" /\ CaughtLocally(e) THEN "None" ELSE "interrupted"
    /\ pc' = SignalTarget(e)
    /\ exc' = IF pc = "is_alive" /\ CaughtLocally(e) THEN "ConnectionError"
              ELSE IF SignalTarget(e) \in {"backoff_sleep", "crashed"} THEN e
              ELSE exc
    /\ state' = IF pc \in {"check", "gen_start"} /\ is_connected THEN StateAfterRead ELSE state
    /\ sink' \in IF pc = "post" THEN {sink, Indexed(payload, title_list)} ELSE {sink}
    /\ IF pc = "post" /\ CaughtLocally(e)
       THEN /\ title_list' = <<>> /\ payload' = <<>>
            /\ UNCHANGED <<updated_time, cursor, yielded>>
       ELSE GenClosed
    /\ abandoned' = IF pc = "transform" THEN Range(cursor) ELSE abandoned
    /\ UNCHANGED <<source, connection, config, retryLocals>>

(* --------------------------- the environment -------------------------- *)
(* An editor saves a movie: TimeStampedModel.updated_at (auto_now) becomes *)
(* the time of the save, later than every earlier save.                    *)
Touch ==
    /\ wrapped = "_execute"
    /\ pc # "crashed"
    /\ \E i \in Ids, t \in Times :
         /\ \A j \in Ids : source[j].ts < t
         /\ source' = [source EXCEPT ![i].ts = t]
    /\ UNCHANGED <<sink, state, connection, config, pc, genLocals, abandoned, sigCount,
                   retryLocals, exc, result>>

(* --------------------------- specifications --------------------------- *)
Next ==
    \/ Start
    \/ BackoffSleep
    \/ ExecuteBegin
    \/ IsAlive
    \/ Check
    \/ GenStart
    \/ GenFetch
    \/ Transform
    \/ Post
    \/ PaceSleep
    \/ \E sig \in {"SIGTERM", "SIGINT"} : Signal(sig)
    \/ Touch

Spec == Init /\ [][Next]_vars

NextRetry ==
    \/ Start
    \/ OpCall
    \/ BackoffSleep

SpecRetry == InitRetry /\ [][NextRetry]_vars

NextQuery ==
    \/ CallCheck
    \/ CallExtract

SpecQuery == InitQuery /\ [][NextQuery]_vars

TypeOK ==
    /\ pc \in {"start", "attempt", "backoff_sleep", "is_alive", "check", "gen_start",
               "gen_fetch", "transform", "post", "pace_sleep", "crashed", "returned", "raised"}
    /\ mtries \in 0..tries
    /\ connection \in {"none", "open", "closed"}
    /\ sigCount \in 0..MaxSignals

(* ============================== claims ================================ *)
InStream == pc \in {"gen_fetch", "transform", "post"}

(* C1: at the end of every cycle the process completes, every source       *)
(* record whose modification time is greater than the watermark at the     *)
(* start of the run and at most the persisted watermark has been sent to   *)
(* the sink in a bulk write that succeeded.                                *)
C1_AtLeastOnceDelivery ==
    pc = "start" =>
        \A i \in Ids :
            (WmValue(startW) < source[i].ts /\ source[i].ts <= WmValue(state))
                => sink[i] = source[i].ts

(* C2: every write of the persisted watermark stores a value greater than  *)
(* or equal to the value it replaces, whatever order the source returns    *)
(* the changed rows in.                                                    *)
C2_WatermarkMonotone == [][WmValue(state') >= WmValue(state)]_vars

(* C3: in every reachable state the persisted watermark is not less than   *)
(* the value it had at the start of the run.                               *)
C3_NeverBelowStart == WmValue(state) >= WmValue(startW)

(* a cycle has ended with the watermark advanced beyond its start value    *)
C3_Witness ==
    /\ pc = "start"
    /\ calls > 0
    /\ WmValue(state) > WmValue(startW)
    /\ WmValue(startW) > 0

(* C4: a stream started with the watermark equal to W yields only records  *)
(* whose modification time is strictly greater than W.                     *)
C4_OnlyStrictlyGreater ==
    InStream => \A k \in 1..Len(yielded) : yielded[k].ts > PgParse(updated_time)

(* a stream has yielded a chunk while a row sits exactly at the watermark  *)
C4_Witness ==
    /\ pc = "transform"
    /\ Len(yielded) > 0
    /\ \E i \in Ids : source[i].ts = PgParse(updated_time)

(* C5: the records one stream delivers are in ascending order of           *)
(* modification time, within each chunk and from one chunk to the next.    *)
C5_StreamAscending == IsSortedByTs(yielded)

(* C6: after a stream was abandoned, the next stream yields every record   *)
(* the abandoned stream had fetched from the source and not yet yielded.   *)
C6_ResumeYieldsPending ==
    (InStream /\ abandoned # {}) =>
        \A r \in abandoned : \E q \in Range(yielded) \cup Range(cursor) : q.id = r.id

(* C7: an operation that fails on every attempt with a retryable exception *)
(* is invoked exactly tries times, the k-th sleep is delay * backoff^(k-1), *)
(* and the last failure is raised with no sleep after it.                  *)
C7_BackoffSchedule ==
    (pc = "raised" /\ IsInstance(exc, ExceptionToCheck)) =>
        /\ calls = tries
        /\ Len(sleeps) = tries - 1
        /\ \A k \in 1..(tries - 1) : sleeps[k] = delay * Pow(backoff, k - 1)

(* tries=4, delay=3, backoff=2: four calls, sleeps 3, 6, 12, then raised   *)
C7_Witness ==
    /\ pc = "raised"
    /\ IsInstance(exc, ExceptionToCheck)
    /\ tries = 4 /\ delay = 3 /\ backoff = 2
    /\ calls = 4
    /\ sleeps = <<3, 6, 12>>

(* C8: exhausting the retries on a connectivity failure abandons only the  *)
(* current cycle; the process does not exit because of it.                 *)
C8_ConnectivityNeverTerminates == ~(pc = "crashed" /\ exc = "ConnectionError")

(* C9: a termination signal arriving in the middle of a source query or a  *)
(* bulk upload does not interrupt that step: control stays where it is.    *)
C9_SignalDoesNotInterrupt ==
    [][(sigCount' > sigCount /\ pc \in {"check", "gen_start", "gen_fetch", "post"})
          => pc' = pc]_vars

(* C10: once a termination signal has been received, the cycle in which it *)
(* arrived is the last one: the loop does not begin another cycle.         *)
C10_NoCycleAfterSignal ==
    [][(sigCount > 0 /\ sigCount' = sigCount /\ pc = "start") => pc' = "start"]_vars

(* C11: when the bulk request of a payload fails in transport, the same    *)
(* payload is sent again instead of being given up after that attempt.     *)
C11_TransportFailureRetried ==
    [][(pc = "post" /\ result' = "exception") => (pc' = "post" /\ payload' = payload)]_vars

(* C12: a cycle in which is_alive() reports the sink as not alive makes no *)
(* pending-changes check, no extraction and no upload, and leaves the      *)
(* persisted watermark as it was when the cycle began.                     *)
C12_NotAliveDoesNothing ==
    [][/\ (pc = "attempt" /\ pc' = "is_alive") => (state' = state /\ sink' = sink)
       /\ (pc = "is_alive" /\ result' \in {"False", "None"}) =>
             /\ pc' \in {"backoff_sleep", "crashed"}
             /\ state' = state
             /\ sink' = sink
             /\ cursor' = <<>>]_vars

(* the sink was reported not alive while changes were pending, and the     *)
(* cycle ended with nothing uploaded                                       *)
C12_Witness ==
    /\ pc = "backoff_sleep"
    /\ result = "False"
    /\ \E i \in Ids : source[i].ts > WmValue(state)
    /\ \A i \in Ids : sink[i] = 0

(* C13: when no source row has a modification time strictly greater than  *)
(* the watermark, check_updated_movies() answers False and the cycle goes  *)
(* to the pacing sleep without starting a stream, a transformation or an   *)
(* upload.                                                                 *)
C13_NoChangesNoStream ==
    [][(/\ pc = "check"
        /\ pc' # "check"
        /\ \A i \in Ids : source[i].ts <= WmValue(StateAfterRead))
          => /\ pc' \in {"pace_sleep", "crashed"}
             /\ result' \in {"True", "False"} => result' = "False"
             /\ cursor' = <<>>
             /\ sink' = sink]_vars

(* the check answered False with a row sitting exactly at the watermark    *)
C13_Witness ==
    /\ pc = "pace_sleep"
    /\ result = "False"
    /\ \E i \in Ids : source[i].ts = WmValue(state)

(* C14: is_alive() returns the boolean False whenever the probe gets a     *)
(* non-success status or fails in transport, and True only on success.     *)
C14_IsAliveReturnsBool ==
    [][(pc = "is_alive" /\ pc' # pc /\ sigCount' = sigCount)
          => result' \in {"True", "False"}]_vars

(* The states a sink can be in before a bulk request reaches it.           *)
SinkStates == [docs : [Ids -> 0..MaxTime], auto : {0, 1}]

(* C15: every action of an uploaded payload is an index write into index   *)
(* "movies" keyed by the identifier of its source record, so that for any  *)
(* sink state applying the payload twice leaves the sink as applying it    *)
(* once does: one document per identifier, overwritten, never duplicated.  *)
C15_DeliveryIdempotent ==
    pc = "post" =>
        LET lines == BulkLines(payload) IN
        /\ Terminated(payload)
        /\ Len(lines) = 2 * Len(title_list)
        /\ \A k \in 1..Len(title_list) :
              /\ lines[2 * k - 1].kind = "action"
              /\ lines[2 * k - 1].index = "movies"
              /\ lines[2 * k - 1].id = title_list[k].id
        /\ \A sk \in SinkStates :
              BulkApply(BulkApply(sk, lines, title_list), lines, title_list)
                  = BulkApply(sk, lines, title_list)

(* a payload is about to be uploaded that carries a document the sink      *)
(* already holds in the same version                                       *)
C15_Witness ==
    /\ pc = "post"
    /\ \E k \in 1..Len(title_list) : sink[title_list[k].id] = title_list[k].ts

(* C16: the payload of a chunk of N >= 1 records has exactly 2N lines, the *)
(* action descriptor and then the document of each record in the order of  *)
(* the records, each line ended by a single newline, the last character of *)
(* the payload being a newline.                                            *)
C16_PayloadShape ==
    pc = "post" =>
        LET N == Len(title_list)
            parts == Split(payload)
        IN /\ N >= 1
           /\ Last(payload) = NewLine
           /\ Len(parts) = 2 * N + 1
           /\ parts[2 * N + 1] = <<>>
           /\ \A k \in 1..(2 * N) : parts[k] # <<>>
           /\ \A k \in 1..N :
                 /\ JsonLoads(parts[2 * k - 1]).kind = "action"
                 /\ JsonLoads(parts[2 * k - 1]).id = title_list[k].id
                 /\ JsonLoads(parts[2 * k]).kind = "doc"
                 /\ JsonLoads(parts[2 * k]).rating = Coerce(title_list[k].rating)

(* the payload of a chunk of two records is about to be uploaded           *)
C16_Witness == pc = "post" /\ Len(title_list) = 2 /\ title_list[1].id # title_list[2].id

(* C17: the document of every record whose rating is present, a rating of *)
(* 0 included, carries the rating as a float; an absent rating stays the   *)
(* None marker; and every line of the chunk can be serialized, so the      *)
(* transformation succeeds.                                                *)
C17_RatingCoerced ==
    pc = "transform" =>
        \A k \in 1..Len(title_list) :
            LET r == title_list[k].rating
                doc == DocLine(title_list[k])
            IN /\ r.kind # "None" => doc.rating = PyFloat(r.v)
               /\ r.kind = "None" => doc.rating = PyNone
               /\ JsonSerializable(doc)

(* C18: no chunk yielded by extract_updated_movies() holds more records    *)
(* than chunk_size, and no yielded chunk is empty.                         *)
C18_ChunkBounded ==
    pc \in {"transform", "post"} =>
        (Len(title_list) >= 1 /\ Len(title_list) <= chunk_size)

(* a full chunk was yielded while the query still has rows to fetch        *)
C18_Witness ==
    /\ pc = "transform"
    /\ Len(title_list) = chunk_size
    /\ cursor # <<>>

(* C19: the watermark advances per record: the step that hands over a      *)
(* chunk of several records moves the watermark no further than the        *)
(* chunk's first record, the later records moving it each in its turn.     *)
C19_WatermarkPerRecord ==
    [][(pc = "gen_fetch" /\ pc' = "transform" /\ Len(title_list') > 1)
          => state' \in {state, StrOfTs(title_list'[1].ts)}]_vars

(* C20: while a stream is open, the persisted watermark is below the       *)
(* modification time of every record of the stream that has not yet been   *)
(* handed to the consumer.                                                 *)
C20_WatermarkBehindUnhanded ==
    InStream => \A k \in 1..Len(cursor) : cursor[k].ts > WmValue(state)

(* C21: an error raised while a chunk is transformed is not retried: the   *)
(* retry wrapper around the cycle does not sleep and call the cycle again  *)
(* because of it; it leaves the cycle as an error.                         *)
C21_TransformErrorNotRetried ==
    [][(pc = "transform" /\ sigCount' = sigCount /\ exc' = "TypeError")
          => pc' = "crashed"]_vars

(* C22: the retry wrapper retries only failures of the class given to it:  *)
(* when the wrapped operation raises a failure that is not an instance of  *)
(* that class, the failure reaches the caller at once, with no sleep and   *)
(* no further attempt.                                                     *)
C22_OnlyGivenClassRetried ==
    [][(pc = "attempt" /\ exc' = "TypeError" /\ ExceptionToCheck = "ConnectionError")
          => /\ pc' = "raised"
             /\ sleeps' = sleeps
             /\ mtries' = mtries
             /\ calls' = calls + 1]_vars

(* a TypeError left a wrapper given ConnectionError on the second attempt, *)
(* with tries to spare                                                     *)
C22_Witness ==
    /\ pc = "raised"
    /\ exc = "TypeError"
    /\ ExceptionToCheck = "ConnectionError"
    /\ calls = 2
    /\ Len(sleeps) = 1
    /\ mtries > 1

(* C23: the retry wrapper keeps nothing between invocations: every call of *)
(* the wrapped operation, every cycle of start() in particular, begins     *)
(* with the full number of tries and the initial delay, whatever failures  *)
(* and retries earlier calls went through.                                 *)
C23_FreshBudgetEachCall ==
    [][(pc \in {"start", "returned", "raised"} /\ pc' = "attempt")
          => (mtries' = tries /\ mdelay' = delay)]_vars

(* a cycle begins with the full budget after an earlier cycle was retried  *)
(* because a chunk failed in transformation                                *)
C23_Witness ==
    /\ pc = "attempt"
    /\ calls = 0
    /\ abandoned # {}
    /\ mtries = tries
    /\ mdelay = delay

(* C24: when a cycle is aborted early, the source connection not obtained  *)
(* or the sink not alive, the orchestrator sleeps the pacing interval      *)
(* before the next cycle: the wait is not a delay of the retry wrapper.    *)
C24_AbortedCyclePaces ==
    [][(/\ wrapped = "_execute"
        /\ pc \in {"attempt", "is_alive"}
        /\ sigCount' = sigCount
        /\ exc' = "ConnectionError")
          => pc' = "pace_sleep"]_vars

(* C25: a cycle that starts disconnected and whose connect() succeeds goes *)
(* on, in that same cycle, to the health check of the sink; a successful   *)
(* connect never aborts the cycle.                                         *)
C25_ConnectSuccessProceeds ==
    [][(/\ wrapped = "_execute"
        /\ pc = "attempt"
        /\ ~is_connected
        /\ connection' = "open")
          => (pc' = "is_alive" /\ exc' = "none")]_vars

(* C26: only check_updated_movies and extract_updated_movies write the     *)
(* persisted watermark: the connect step, the health check, the            *)
(* transformation, the bulk request, the retry sleep and the pacing sleep  *)
(* each leave the persisted state as it was.                               *)
C26_OnlyExtractorWrites ==
    [][state' # state => pc \in {"check", "gen_start", "gen_fetch"}]_vars

(* a chunk was transformed and its bulk request answered, the watermark    *)
(* still the one the extractor wrote when it yielded the chunk             *)
C26_Witness ==
    /\ pc = "gen_fetch"
    /\ result \in {"ok", "rejected", "exception"}
    /\ yielded # <<>>
    /\ state = StrOfTs(Last(yielded).ts)
    /\ state # startW

(* C27: when a stream ends after every one of its chunks was uploaded with *)
(* success, the persisted watermark is the greatest modification time      *)
(* among the records the stream yielded, so that an unchanged source has   *)
(* nothing pending at the next check.                                      *)
C27_QuiescentAfterCleanCycle ==
    [][(/\ pc = "gen_fetch"
        /\ cursor = <<>>
        /\ yielded # <<>>
        /\ \A k \in 1..Len(yielded) : sink[yielded[k].id] = yielded[k].ts
        /\ sigCount' = sigCount
        /\ pc' = "pace_sleep")
          => /\ \A k \in 1..Len(yielded) : yielded[k].ts <= WmValue(state')
             /\ \E k \in 1..Len(yielded) : yielded[k].ts = WmValue(state')]_vars

(* C28: for every content of the source and every watermark, with the     *)
(* extractor connected and the queries answered, check_updated_movies()    *)
(* returns True exactly when extract_updated_movies() started from the     *)
(* same watermark has at least one record to yield.                        *)
C28_CheckAgreesWithExtraction ==
    (wrapped = "query" /\ pc = "gen_fetch") =>
        /\ result \in {"True", "False"}
        /\ result = "True" <=> cursor # <<>>
        /\ {cursor[k].id : k \in 1..Len(cursor)} = {i \in Ids : source[i].ts > WmValue(state)}

(* the check answered True and the extraction has a movie to yield that    *)
(* has neither a genre nor a person linked to it                           *)
C28_Witness ==
    /\ wrapped = "query"
    /\ pc = "gen_fetch"
    /\ result = "True"
    /\ \E k \in 1..Len(cursor) :
          links[cursor[k].id].genres = 0 /\ links[cursor[k].id].people = 0

(* C29: when the wrapped operation first succeeds on attempt k, the        *)
(* wrapper returns that attempt's result, the operation has been invoked   *)
(* exactly k times with k <= tries, exactly k - 1 sleeps have occurred,    *)
(* and no attempt or sleep of this call follows the success.               *)
C29_ReturnsOnFirstSuccess ==
    [][/\ (pc = "attempt" /\ wrapped = "op" /\ calls' = calls + 1 /\ exc' = "none")
           => /\ pc' = "returned"
              /\ result' = "value"
              /\ calls' <= tries
              /\ Len(sleeps') = calls' - 1
              /\ sleeps' = sleeps
       /\ pc = "returned" => (pc' = "attempt" /\ calls' = 0 /\ sleeps' = <<>>)]_vars

(* tries=4: two failures, two sleeps, and the third attempt returned       *)
C29_Witness ==
    /\ pc = "returned"
    /\ result = "value"
    /\ tries = 4
    /\ calls = 3
    /\ Len(sleeps) = 2

============================================================================
